---------------------------- MODULE Spec2Model ----------------------------
(* A model of random_content(r) of js/labyrinth.js: the njs handler that    *)
(* validates its four arguments, inspects and opens the corpus file, samples *)
(* blocks from random offsets until the requested amount of text has been    *)
(* gathered, wraps each block in an anchor tag and answers 200 with the      *)
(* page, or 500 with a fixed message after any error.                        *)
(*                                                                           *)
(* Strings are sequences of one-character strings.  A JavaScript number is a *)
(* record [kind, v]: kind "int" with its value, kind "NaN", or "undefined"   *)
(* for a local that was declared by `let` and not assigned yet.              *)
EXTENDS Integers, Sequences, FiniteSets, TLC

(* ------------------------------------------------------------------------ *)
(* Bounds of the model                                                       *)
(* ------------------------------------------------------------------------ *)

\* longest corpus file, in bytes
MaxCorpusLen == 3

\* longest string handed to the normalization rules in SpecNorm
MaxLineLen == 4

(* ------------------------------------------------------------------------ *)
(* Characters and strings                                                    *)
(* ------------------------------------------------------------------------ *)

LF == "\n"
CR == "\r"
SP == " "
NUL == "NUL"

\* the bytes a corpus file of the model is made of
CorpusBytes == {"a", SP, LF}

\* the characters of the strings normalization is tried on
LineChars == {"a", SP, LF, CR}

\* all strings over alphabet of length at most n
StringsUpTo(alphabet, n) == UNION {[1..k -> alphabet] : k \in 0..n}

Corpora == StringsUpTo(CorpusBytes, MaxCorpusLen)

Min(a, b) == IF a <= b THEN a ELSE b

(* ------------------------------------------------------------------------ *)
(* JavaScript numbers                                                        *)
(* ------------------------------------------------------------------------ *)

Num(n) == [kind |-> "int", v |-> n]
NaN == [kind |-> "NaN", v |-> 0]
Undefined == [kind |-> "undefined", v |-> 0]

IsInt(x) == x.kind = "int"

\* a <= b, a < b, a > b: false as soon as one side is NaN
JsLe(a, b) == IsInt(a) /\ IsInt(b) /\ a.v <= b.v
JsLt(a, b) == IsInt(a) /\ IsInt(b) /\ a.v < b.v
JsGt(a, b) == IsInt(a) /\ IsInt(b) /\ a.v > b.v

\* Math.min(a, b): NaN as soon as one argument is NaN
MathMin(a, b) == IF IsInt(a) /\ IsInt(b) THEN Num(Min(a.v, b.v)) ELSE NaN

\* Math.ceil(a / b) * 2 for a >= 0 and b > 0; NaN as soon as one side is NaN.
\* (b = 0 cannot occur: an integer block_size is at least 1 here.)
CeilDivTimes2(a, b) ==
    IF IsInt(a) /\ IsInt(b) /\ b.v > 0
    THEN Num(((a.v + b.v - 1) \div b.v) * 2)
    ELSE NaN

(* ------------------------------------------------------------------------ *)
(* parseInt(text, 10)                                                        *)
(* ------------------------------------------------------------------------ *)

Digits == {"0", "1", "2", "3", "4", "5", "6", "7", "8", "9"}

DigitVal(c) ==
    CASE c = "0" -> 0 [] c = "1" -> 1 [] c = "2" -> 2 [] c = "3" -> 3
      [] c = "4" -> 4 [] c = "5" -> 5 [] c = "6" -> 6 [] c = "7" -> 7
      [] c = "8" -> 8 [] c = "9" -> 9

\* text without its leading white space
RECURSIVE SkipSpace(_)
SkipSpace(s) ==
    IF s # <<>> /\ Head(s) \in {SP, LF, CR} THEN SkipSpace(Tail(s)) ELSE s

\* the longest prefix of s made of decimal digits
RECURSIVE DigitPrefix(_)
DigitPrefix(s) ==
    IF s # <<>> /\ Head(s) \in Digits
    THEN <<Head(s)>> \o DigitPrefix(Tail(s))
    ELSE <<>>

\* the value of a string of decimal digits, acc being the value read so far
RECURSIVE DigitsValue(_, _)
DigitsValue(s, acc) ==
    IF s = <<>> THEN acc ELSE DigitsValue(Tail(s), acc * 10 + DigitVal(Head(s)))

\* parseInt(text, 10): white space is skipped, one sign is taken, the digits
\* that follow are read and whatever comes after them is ignored; NaN when no
\* digit is found there.
ParseInt(text) ==
    LET t == SkipSpace(text)
        neg == t # <<>> /\ Head(t) = "-"
        u == IF t # <<>> /\ Head(t) \in {"-", "+"} THEN Tail(t) ELSE t
        d == DigitPrefix(u)
    IN  IF d = <<>> THEN NaN
        ELSE IF neg THEN Num(0 - DigitsValue(d, 0)) ELSE Num(DigitsValue(d, 0))

(* ------------------------------------------------------------------------ *)
(* The normalization rules                                                   *)
(* ------------------------------------------------------------------------ *)

\* the number of characters s.replace(/(\r*\n)+/g, ...) matches at the start
\* of s: as many units "some CRs, then one LF" as there are, 0 when none
RECURSIVE CrRun(_)
CrRun(s) == IF s # <<>> /\ Head(s) = CR THEN 1 + CrRun(Tail(s)) ELSE 0

RECURSIVE CrLfMatch(_)
CrLfMatch(s) ==
    LET k == CrRun(s)
    IN  IF k < Len(s) /\ s[k + 1] = LF
        THEN (k + 1) + CrLfMatch(SubSeq(s, k + 2, Len(s)))
        ELSE 0

\* s.replace(/(\r*\n)+/g, ' ')
RECURSIVE ReplaceCrLf(_)
ReplaceCrLf(s) ==
    IF s = <<>> THEN <<>>
    ELSE LET m == CrLfMatch(s)
         IN  IF m > 0
             THEN <<SP>> \o ReplaceCrLf(SubSeq(s, m + 1, Len(s)))
             ELSE <<Head(s)>> \o ReplaceCrLf(Tail(s))

\* s.replace(/ +/g, ' ')
RECURSIVE ReplaceSpaces(_)
ReplaceSpaces(s) ==
    IF s = <<>> THEN <<>>
    ELSE IF Head(s) = SP /\ Len(s) > 1 /\ s[2] = SP
         THEN ReplaceSpaces(Tail(s))
         ELSE <<Head(s)>> \o ReplaceSpaces(Tail(s))

\* a plausible slip: the two rules applied in the other order
NormalizeSpacesFirst(s) == ReplaceCrLf(ReplaceSpaces(s))

\* lines 266-267: first the CR/LF rule, then the spaces rule
Normalize(s) == ReplaceSpaces(ReplaceCrLf(s))

(* ------------------------------------------------------------------------ *)
(* Buffers, reads, slices and identifiers                                    *)
(* ------------------------------------------------------------------------ *)

\* Buffer.alloc(n): n zero bytes
ZeroBuffer(n) == [i \in 1..n |-> NUL]

\* the bytes fs.readSync delivers from a file for `length` bytes asked at
\* `position`: it stops at the end of the file
FileBytes(file, length, position) ==
    SubSeq(file, position + 1, Min(position + length, Len(file)))

\* the buffer after fs.readSync(fd, buffer, offset, length, position)
BufferAfterRead(buffer, offset, data) ==
    [i \in 1..Len(buffer) |->
        IF i > offset /\ i <= offset + Len(data) THEN data[i - offset] ELSE buffer[i]]

\* read_buffer.toString('utf8'): every byte of the model is a 7-bit one and
\* decodes to the character of the same code
ToStringUtf8(buffer) == [i \in 1..Len(buffer) |-> buffer[i]]

\* s.slice(0, end): a negative end counts from the end of the string
Slice0(s, end) ==
    LET e == IF end < 0
             THEN (IF Len(s) + end < 0 THEN 0 ELSE Len(s) + end)
             ELSE Min(end, Len(s))
    IN  SubSeq(s, 1, e)

\* a plausible slip: the line is never cut
TrimLineNoCut(line, length, total) == line

\* line 273: line_read.slice(0, total_size - (concatenated_text_length +
\* line_read.length))
TrimLine(line, length, total) == Slice0(line, total - (length + Len(line)))

\* Math.random() draws a fraction in [0, 1), given here by its digits in base
\* 36 after the point (none for 0 itself)
RandomFractions == {<<>>, <<"i">>}

\* x.toString(36) of a fraction x in [0, 1)
ToString36(fraction) ==
    IF fraction = <<>> THEN <<"0">> ELSE <<"0", ".">> \o fraction

\* s.substring(2)
Substring2(s) == SubSeq(s, 3, Len(s))

DotHtml == <<".", "h", "t", "m", "l">>

\* line 290: the link target of one fragment
LinkTarget(base, fraction) == base \o Substring2(ToString36(fraction)) \o DotHtml

(* ------------------------------------------------------------------------ *)
(* The request, the response and the errors                                  *)
(* ------------------------------------------------------------------------ *)

Arg(t) == [present |-> TRUE, text |-> t]
Missing == [present |-> FALSE, text |-> <<>>]

\* the values of `set $base_path ...`
BasePathArgs == {Missing, Arg(<<>>), Arg(<<"/", "e">>), Arg(<<"/", "e", "/">>)}

\* the values of `set $corpus ...`
CorpusArgs == {Missing, Arg(<<>>), Arg(<<"c">>)}

\* the texts of `set $block_size ...` and `set $total_size ...`
SizeTexts == {<<"0">>, <<"-", "5">>, <<"x">>, <<"1">>, <<"2", "x">>}

SizeArgs == {Missing} \cup {Arg(t) : t \in SizeTexts}

\* lines 184 and 196: the defaults
DefaultBlockSize == 80
DefaultTotalSize == 500

\* line 320: the message of every 500 response
GenericMessage == "Replicant data could not be loaded. Please contact a system administrator."

\* lines 299-309: the page around the fragments
PageHead == "<!DOCTYPE html>...<div id=container><p>"
PageTail == "</p></div></body></html>"

Err(name, message) == [name |-> name, message |-> message]
NoError == Err("", "")

NoBody == [head |-> "", fragments |-> <<>>, tail |-> ""]

\* the descriptors fs.openSync hands out
Descriptors == {3}

(* ------------------------------------------------------------------------ *)
(* State                                                                     *)
(* ------------------------------------------------------------------------ *)

VARIABLES
    pc,                        \* the position of the handler
    corpus_file,               \* the bytes of the corpus file
    r_base_path,               \* r.variables.base_path as the handler saw it
    r_corpus,                  \* r.variables.corpus
    r_block_size,              \* r.variables.block_size
    r_total_size,              \* r.variables.total_size
    base_path,
    block_size,
    total_size,
    corpus_size,               \* corpus_stats.size
    fd,                        \* <<>> while undefined, <<d>> once assigned
    read_offset,               \* the offset drawn by the last pass of the loop
    read_buffer,
    line_read,
    built_contents,            \* the fragments <a href="href">text</a>, in order
    concatenated_text_length,
    loop_limiter,
    error,                     \* the error the catch clause is handling
    console_error,             \* what console.error has recorded
    status,                    \* r.return's status, 0 before any
    body,                      \* r.return's body
    open_fds,                  \* the descriptors the process holds open
    stat_calls,
    open_calls,
    read_calls,
    close_calls

request == <<r_base_path, r_corpus, r_block_size, r_total_size>>
locals == <<base_path, block_size, total_size, corpus_size>>
loopvars == <<read_offset, read_buffer, line_read, built_contents,
              concatenated_text_length, loop_limiter>>
response == <<status, body>>
filesys == <<open_fds, stat_calls, open_calls, read_calls, close_calls>>

vars == <<pc, corpus_file, request, locals, fd, loopvars, error, console_error,
          response, filesys>>

Init ==
    /\ pc = "base_path"
    /\ corpus_file \in Corpora
    /\ r_base_path = Missing
    /\ r_corpus = Missing
    /\ r_block_size = Missing
    /\ r_total_size = Missing
    /\ base_path = <<>>
    /\ block_size = Undefined
    /\ total_size = Undefined
    /\ corpus_size = Undefined
    /\ fd = <<>>
    /\ read_offset = Undefined
    /\ read_buffer = <<>>
    /\ line_read = <<>>
    /\ built_contents = <<>>
    /\ concatenated_text_length = 0
    /\ loop_limiter = Undefined
    /\ error = NoError
    /\ console_error = <<>>
    /\ status = 0
    /\ body = NoBody
    /\ open_fds = {}
    /\ stat_calls = 0
    /\ open_calls = 0
    /\ read_calls = 0
    /\ close_calls = 0

\* throw e: control goes to the catch clause
Throw(e) ==
    /\ pc' = "catch"
    /\ error' = e

(* ------------------------------------------------------------------------ *)
(* Argument validation, lines 149-197                                        *)
(* ------------------------------------------------------------------------ *)

\* s.slice(-1): the last character, the empty string for an empty s
LastChar(s) == IF s = <<>> THEN <<>> ELSE <<s[Len(s)]>>

\* lines 158-163
WithSeparator(p) == IF LastChar(p) = <<"/">> THEN p ELSE p \o <<"/">>

\* lines 149-163
CheckBasePath ==
    /\ pc = "base_path"
    /\ \E a \in BasePathArgs :
        /\ r_base_path' = a
        /\ IF ~a.present
           THEN Throw(Err("SyntaxError", "base_path argument missing"))
                /\ UNCHANGED base_path
           ELSE IF a.text = <<>>
           THEN Throw(Err("RangeError", "base_path argument is empty"))
                /\ UNCHANGED base_path
           ELSE /\ base_path' = WithSeparator(a.text)
                /\ pc' = "corpus_arg"
                /\ UNCHANGED error
    /\ UNCHANGED <<corpus_file, r_corpus, r_block_size, r_total_size, block_size,
                   total_size, corpus_size, fd, loopvars, console_error, response,
                   filesys>>

\* lines 165-173
CheckCorpus ==
    /\ pc = "corpus_arg"
    /\ \E a \in CorpusArgs :
        /\ r_corpus' = a
        /\ IF ~a.present
           THEN Throw(Err("SyntaxError", "corpus argument missing"))
           ELSE IF a.text = <<>>
           THEN Throw(Err("RangeError", "corpus argument is empty"))
           ELSE pc' = "block_size_arg" /\ UNCHANGED error
    /\ UNCHANGED <<corpus_file, r_base_path, r_block_size, r_total_size, locals, fd,
                   loopvars, console_error, response, filesys>>

\* a plausible slip: the test `block_size < 0`, which lets 0 through
NotPositiveStrict(n) == JsLt(n, Num(0))

\* lines 179 and 191: `size <= 0`
NotPositive(n) == JsLe(n, Num(0))

\* lines 175-185
CheckBlockSize ==
    /\ pc = "block_size_arg"
    /\ \E a \in SizeArgs :
        /\ r_block_size' = a
        /\ IF a.present
           THEN /\ block_size' = ParseInt(a.text)
                /\ IF NotPositive(block_size')
                   THEN Throw(Err("RangeError", "block_size argument is not a positive integer"))
                   ELSE pc' = "total_size_arg" /\ UNCHANGED error
           ELSE /\ block_size' = Num(DefaultBlockSize)
                /\ pc' = "total_size_arg"
                /\ UNCHANGED error
    /\ UNCHANGED <<corpus_file, r_base_path, r_corpus, r_total_size, base_path,
                   total_size, corpus_size, fd, loopvars, console_error, response,
                   filesys>>

\* lines 187-197
CheckTotalSize ==
    /\ pc = "total_size_arg"
    /\ \E a \in SizeArgs :
        /\ r_total_size' = a
        /\ IF a.present
           THEN /\ total_size' = ParseInt(a.text)
                /\ IF NotPositive(total_size')
                   THEN Throw(Err("RangeError", "total_size argument is not a positive integer"))
                   ELSE pc' = "stat" /\ UNCHANGED error
           ELSE /\ total_size' = Num(DefaultTotalSize)
                /\ pc' = "stat"
                /\ UNCHANGED error
    /\ UNCHANGED <<corpus_file, r_base_path, r_corpus, r_block_size, base_path,
                   block_size, corpus_size, fd, loopvars, console_error, response,
                   filesys>>

(* ------------------------------------------------------------------------ *)
(* Corpus inspection, open and buffer, lines 199-233                         *)
(* ------------------------------------------------------------------------ *)

\* line 210: block_size = Math.min(corpus_stats.size, block_size)
EffectiveBlockSize(size, asked) == MathMin(size, asked)

\* a plausible slip: the total size is taken as asked for, not cut to the file
TotalSizeAsAsked(size, asked) == asked

\* line 213: total_size = Math.min(corpus_stats.size, total_size)
EffectiveTotalSize(size, asked) == MathMin(size, asked)

\* lines 199-214: fs.statSync either throws (no such file, no permission) or
\* reports the size of the file
StatCorpus ==
    /\ pc = "stat"
    /\ stat_calls' = stat_calls + 1
    /\ \/ /\ Throw(Err("Error", "statSync failed"))
          /\ UNCHANGED <<block_size, total_size, corpus_size>>
       \/ /\ corpus_size' = Num(Len(corpus_file))
          /\ IF corpus_size'.v = 0
             THEN /\ Throw(Err("Error", "corpus file size is empty"))
                  /\ UNCHANGED <<block_size, total_size>>
             ELSE /\ block_size' = EffectiveBlockSize(corpus_size', block_size)
                  /\ total_size' = EffectiveTotalSize(corpus_size', total_size)
                  /\ pc' = "open"
                  /\ UNCHANGED error
    /\ UNCHANGED <<corpus_file, request, base_path, fd, loopvars, console_error,
                   response, open_fds, open_calls, read_calls, close_calls>>

\* lines 216-218: fs.openSync either throws or returns a descriptor
OpenCorpus ==
    /\ pc = "open"
    /\ open_calls' = open_calls + 1
    /\ \/ /\ Throw(Err("Error", "openSync failed"))
          /\ UNCHANGED <<fd, open_fds>>
       \/ \E d \in Descriptors \ open_fds :
          /\ fd' = <<d>>
          /\ open_fds' = open_fds \cup {d}
          /\ pc' = "alloc"
          /\ UNCHANGED error
    /\ UNCHANGED <<corpus_file, request, locals, loopvars, console_error, response,
                   stat_calls, read_calls, close_calls>>

\* lines 220-233.  Buffer.alloc of an integer size returns that many zero bytes
\* or throws for lack of memory; for NaN (a size text without digits) the
\* runtime either rejects the size or takes it as 0.
AllocBuffer ==
    /\ pc = "alloc"
    /\ \/ /\ Throw(Err("Error", "Buffer.alloc failed"))
          /\ UNCHANGED loopvars
       \/ /\ read_buffer' = IF IsInt(block_size) THEN ZeroBuffer(block_size.v) ELSE <<>>
          /\ built_contents' = <<>>
          /\ concatenated_text_length' = 0
          /\ loop_limiter' = CeilDivTimes2(total_size, block_size)
          /\ pc' = "loop"
          /\ UNCHANGED <<read_offset, line_read, error>>
    /\ UNCHANGED <<corpus_file, request, locals, fd, console_error, response, filesys>>

(* ------------------------------------------------------------------------ *)
(* The sampling loop, lines 237-294                                          *)
(* ------------------------------------------------------------------------ *)

\* a plausible slip: the loop limiter is not tested
LoopConditionNoLimiter == JsLt(Num(concatenated_text_length), total_size)

\* line 237
LoopCondition ==
    /\ JsLt(Num(concatenated_text_length), total_size)
    /\ JsGt(loop_limiter, Num(0))

\* a plausible slip: the second read left out, so that the end of the buffer
\* keeps what an earlier pass put there
WrapAroundSkipped(buffer, bytes_read, file, size) == buffer

\* lines 251-257: when the first read delivered fewer than block_size bytes,
\* a second read from position 0 fills the buffer from where the first
\* stopped
WrapAround(buffer, bytes_read, file, size) ==
    IF bytes_read < size
    THEN BufferAfterRead(buffer, bytes_read, FileBytes(file, size - bytes_read, 0))
    ELSE buffer

\* lines 239-293: one pass of the loop.  Either readSync may throw.
Iterate ==
    /\ pc = "loop"
    /\ LoopCondition
    /\ \E offset \in 0..(corpus_size.v - 1) :
        LET first == FileBytes(corpus_file, block_size.v, offset)
            buffer1 == BufferAfterRead(read_buffer, 0, first)
            short == Len(first) < block_size.v
            buffer2 == WrapAround(buffer1, Len(first), corpus_file, block_size.v)
            normalized == Normalize(ToStringUtf8(buffer2))
            cut == concatenated_text_length + Len(normalized) > total_size.v
            line == IF cut
                    THEN TrimLine(normalized, concatenated_text_length, total_size.v)
                    ELSE normalized
        IN  /\ read_offset' = Num(offset)
            /\ \/ /\ Throw(Err("Error", "readSync failed"))
                  /\ read_calls' = read_calls + 1
                  /\ UNCHANGED <<read_buffer, line_read, built_contents,
                                 concatenated_text_length, loop_limiter>>
               \/ /\ short
                  /\ Throw(Err("Error", "readSync failed"))
                  /\ read_calls' = read_calls + 2
                  /\ read_buffer' = buffer1
                  /\ UNCHANGED <<line_read, built_contents, concatenated_text_length,
                                 loop_limiter>>
               \/ \E fraction \in RandomFractions :
                  /\ read_calls' = read_calls + (IF short THEN 2 ELSE 1)
                  /\ read_buffer' = buffer2
                  /\ line_read' = line
                  /\ concatenated_text_length' =
                        IF cut THEN total_size.v
                        ELSE concatenated_text_length + Len(normalized)
                  /\ built_contents' = Append(built_contents,
                        [href |-> LinkTarget(base_path, fraction), text |-> line])
                  /\ loop_limiter' = Num(loop_limiter.v - 1)
                  /\ UNCHANGED <<pc, error>>
    /\ UNCHANGED <<corpus_file, request, locals, fd, console_error, response,
                   open_fds, stat_calls, open_calls, close_calls>>

(* ------------------------------------------------------------------------ *)
(* The response and the clean-up, lines 297-334                              *)
(* ------------------------------------------------------------------------ *)

\* lines 297-311: the loop is over, the page is built and returned
Respond ==
    /\ pc = "loop"
    /\ ~LoopCondition
    /\ status' = 200
    /\ body' = [head |-> PageHead, fragments |-> built_contents, tail |-> PageTail]
    /\ pc' = "finally"
    /\ UNCHANGED <<corpus_file, request, locals, fd, loopvars, error, console_error,
                   filesys>>

\* a plausible slip: line 321 in place of line 320, the error itself returned
ErrorBodyDetailed(e) == [head |-> e.message, fragments |-> <<>>, tail |-> ""]

\* line 320: the body of the 500 response
ErrorBody(e) == [head |-> GenericMessage, fragments |-> <<>>, tail |-> ""]

\* lines 314-321
Catch ==
    /\ pc = "catch"
    /\ console_error' = Append(console_error, error)
    /\ status' = 500
    /\ body' = ErrorBody(error)
    /\ pc' = "finally"
    /\ UNCHANGED <<corpus_file, request, locals, fd, loopvars, error, filesys>>

\* a plausible slip: the close made on the success path only, as if it stood
\* at the end of the try block
MustCloseOnSuccess(f, st) == f # <<>> /\ st = 200

\* line 326: typeof fd !== 'undefined'
MustClose(f, st) == f # <<>>

\* lines 323-334.  fs.closeSync either succeeds or throws, and the error is
\* logged and dropped; the descriptor is released by the close call itself in
\* both cases (close(2) frees the descriptor even when it reports an error).
Finally ==
    /\ pc = "finally"
    /\ pc' = "done"
    /\ IF MustClose(fd, status)
       THEN /\ close_calls' = close_calls + 1
            /\ open_fds' = open_fds \ {fd[1]}
            /\ \/ UNCHANGED console_error
               \/ console_error' = Append(console_error, Err("Error", "Unable to close fd"))
       ELSE UNCHANGED <<close_calls, open_fds, console_error>>
    /\ UNCHANGED <<corpus_file, request, locals, fd, loopvars, error, response,
                   stat_calls, open_calls, read_calls>>

Next ==
    \/ CheckBasePath
    \/ CheckCorpus
    \/ CheckBlockSize
    \/ CheckTotalSize
    \/ StatCorpus
    \/ OpenCorpus
    \/ AllocBuffer
    \/ Iterate
    \/ Respond
    \/ Catch
    \/ Finally

Spec == Init /\ [][Next]_vars

(* ------------------------------------------------------------------------ *)
(* The normalization rules on their own: every string up to MaxLineLen is    *)
(* decoded and normalized as lines 260-267 do, and then normalized again     *)
(* ------------------------------------------------------------------------ *)

InitNorm ==
    /\ pc = "decode"
    /\ read_buffer \in StringsUpTo(LineChars, MaxLineLen)
    /\ corpus_file = <<>>
    /\ r_base_path = Missing
    /\ r_corpus = Missing
    /\ r_block_size = Missing
    /\ r_total_size = Missing
    /\ base_path = <<>>
    /\ block_size = Undefined
    /\ total_size = Undefined
    /\ corpus_size = Undefined
    /\ fd = <<>>
    /\ read_offset = Undefined
    /\ line_read = <<>>
    /\ built_contents = <<>>
    /\ concatenated_text_length = 0
    /\ loop_limiter = Undefined
    /\ error = NoError
    /\ console_error = <<>>
    /\ status = 0
    /\ body = NoBody
    /\ open_fds = {}
    /\ stat_calls = 0
    /\ open_calls = 0
    /\ read_calls = 0
    /\ close_calls = 0

\* lines 260-267
NormalizeLine ==
    /\ pc = "decode"
    /\ line_read' = Normalize(ToStringUtf8(read_buffer))
    /\ pc' = "normalized"
    /\ UNCHANGED <<corpus_file, request, locals, fd, read_offset, read_buffer, built_contents,
                   concatenated_text_length, loop_limiter, error, console_error,
                   response, filesys>>

\* lines 266-267 once more, on their own result
NormalizeAgain ==
    /\ pc = "normalized"
    /\ line_read' = Normalize(line_read)
    /\ pc' = "renormalized"
    /\ UNCHANGED <<corpus_file, request, locals, fd, read_offset, read_buffer, built_contents,
                   concatenated_text_length, loop_limiter, error, console_error,
                   response, filesys>>

NextNorm ==
    \/ NormalizeLine
    \/ NormalizeAgain

SpecNorm == InitNorm /\ [][NextNorm]_vars

(* ------------------------------------------------------------------------ *)
(* What the properties are stated with                                       *)
(* ------------------------------------------------------------------------ *)

\* the total length of the texts inside the anchors
RECURSIVE TextLength(_)
TextLength(fragments) ==
    IF fragments = <<>> THEN 0
    ELSE Len(Head(fragments).text) + TextLength(Tail(fragments))

\* the size a request asks for: the number its text parses to, the default
\* when the argument is omitted
AskedSize(arg, default) == IF arg.present THEN ParseInt(arg.text) ELSE Num(default)

\* the argument is omitted or its text parses to a positive integer
SizeArgValid(arg) == ~arg.present \/ JsGt(ParseInt(arg.text), Num(0))

\* the handler has computed its budget: it is at the loop or past it
LoopEntered == loop_limiter # Undefined

\* the caller-visible 500 response
FailureBody == [head |-> GenericMessage, fragments |-> <<>>, tail |-> ""]

\* the characters of a string
Chars(s) == {s[i] : i \in 1..Len(s)}

(* ------------------------------------------------------------------------ *)
(* C1                                                                        *)
(* ------------------------------------------------------------------------ *)

\* C1: for a request whose sizes are valid, the lengths of the texts inside
\* the anchors add up to concatenated_text_length after every pass of the
\* loop and never to more than the effective total size; and in the 200 page
\* they add up to exactly the effective total size unless the loop limiter
\* reached 0.
C1_Accumulation ==
    (LoopEntered /\ SizeArgValid(r_block_size) /\ SizeArgValid(r_total_size)) =>
        /\ IsInt(total_size)
        /\ TextLength(built_contents) = concatenated_text_length
        /\ concatenated_text_length <= total_size.v
        /\ status = 200 =>
              \/ TextLength(body.fragments) = total_size.v
              \/ loop_limiter = Num(0)

\* a 200 page of several fragments whose last one was cut to land on the
\* effective total size, with budget left
C1_Witness ==
    /\ pc = "done"
    /\ status = 200
    /\ Len(body.fragments) >= 2
    /\ Len(line_read) < Len(Normalize(ToStringUtf8(read_buffer)))
    /\ TextLength(body.fragments) = total_size.v
    /\ JsGt(loop_limiter, Num(0))

(* ------------------------------------------------------------------------ *)
(* C2                                                                        *)
(* ------------------------------------------------------------------------ *)

\* C2: whatever the corpus holds, the loop makes at most
\* ceil(total_size / block_size) * 2 passes (none when that is not a number),
\* the handler always has a next step until it is done, and once the loop was
\* entered the caller gets the 200 page unless a read failed.
C2_Budget ==
    /\ (LoopEntered /\ IsInt(total_size) /\ IsInt(block_size)) =>
          Len(built_contents) <= ((total_size.v + block_size.v - 1) \div block_size.v) * 2
    /\ (LoopEntered /\ ~(IsInt(total_size) /\ IsInt(block_size))) =>
          Len(built_contents) = 0
    /\ pc # "done" => ENABLED Next
    /\ (pc = "done" /\ LoopEntered /\ error.message # "readSync failed") =>
          /\ status = 200
          /\ body.head = PageHead
          /\ body.fragments = built_contents

\* a corpus of line feeds only: the budget runs out and the 200 page holds
\* less text than the effective total size
C2_Witness ==
    /\ pc = "done"
    /\ status = 200
    /\ Len(corpus_file) = MaxCorpusLen
    /\ Chars(corpus_file) = {LF}
    /\ loop_limiter = Num(0)
    /\ Len(body.fragments) = 2
    /\ TextLength(body.fragments) < total_size.v

(* ------------------------------------------------------------------------ *)
(* C3                                                                        *)
(* ------------------------------------------------------------------------ *)

\* C3: when the handler is done no descriptor is left open; one close was
\* attempted if a descriptor had been opened and none otherwise, and no close
\* is attempted before the clean-up.
C3_Closed ==
    /\ close_calls <= 1
    /\ pc # "done" => close_calls = 0
    /\ pc = "done" =>
          /\ open_fds = {}
          /\ close_calls = (IF fd # <<>> THEN 1 ELSE 0)
          /\ (fd # <<>>) <=> (open_calls = 1 /\ error.message # "openSync failed")

\* a read failed inside the loop, after the corpus was opened, and the
\* descriptor was closed all the same
C3_Witness ==
    /\ pc = "done"
    /\ status = 500
    /\ error.message = "readSync failed"
    /\ fd # <<>>
    /\ close_calls = 1
    /\ open_fds = {}

(* ------------------------------------------------------------------------ *)
(* C4                                                                        *)
(* ------------------------------------------------------------------------ *)

\* C4: for every request that reaches corpus inspection of a non-empty
\* corpus, whatever the size texts, the effective block size is
\* min(asked block size, corpus length), the effective total size is
\* min(asked total size, corpus length), and both are at most the corpus
\* length.
C4_Clamped ==
    (pc \in {"open", "alloc", "loop"}) =>
        /\ block_size = MathMin(AskedSize(r_block_size, DefaultBlockSize), Num(Len(corpus_file)))
        /\ total_size = MathMin(AskedSize(r_total_size, DefaultTotalSize), Num(Len(corpus_file)))
        /\ JsLe(block_size, Num(Len(corpus_file)))
        /\ JsLe(total_size, Num(Len(corpus_file)))

(* ------------------------------------------------------------------------ *)
(* C5                                                                        *)
(* ------------------------------------------------------------------------ *)

\* C5: a request whose block_size or total_size text does not parse to a
\* positive integer is answered 500 with the fixed message and never 200; an
\* omitted size takes its default, 80 or 500.
C5_Rejected ==
    /\ (status # 0 /\ (~SizeArgValid(r_block_size) \/ ~SizeArgValid(r_total_size))) =>
          /\ status = 500
          /\ body = FailureBody
    /\ (pc = "total_size_arg" /\ ~r_block_size.present) => block_size = Num(80)
    /\ (pc = "stat" /\ ~r_total_size.present) => total_size = Num(500)

(* ------------------------------------------------------------------------ *)
(* C6                                                                        *)
(* ------------------------------------------------------------------------ *)

\* the request was turned down by the argument checks: base_path or corpus
\* missing or empty, or a size text that parses to zero or less
ArgumentRejected ==
    \/ pc # "base_path" /\ (~r_base_path.present \/ r_base_path.text = <<>>)
    \/ pc \notin {"base_path", "corpus_arg"} /\ (~r_corpus.present \/ r_corpus.text = <<>>)
    \/ r_block_size.present /\ JsLe(ParseInt(r_block_size.text), Num(0))
    \/ r_total_size.present /\ JsLe(ParseInt(r_total_size.text), Num(0))

\* C6: no stat, open or read is made for a request the argument checks turn
\* down; an open is made only after a stat that reported a positive size, a
\* read only on an opened descriptor; and a zero-length corpus or a failing
\* stat ends in a 500 response without any open or read.
C6_Order ==
    /\ ArgumentRejected => (stat_calls = 0 /\ open_calls = 0 /\ read_calls = 0)
    /\ open_calls > 0 =>
          /\ stat_calls = 1
          /\ IsInt(corpus_size)
          /\ corpus_size.v > 0
    /\ read_calls > 0 => (open_calls = 1 /\ fd # <<>>)
    /\ (stat_calls > 0 /\ (Len(corpus_file) = 0 \/ error.message = "statSync failed")) =>
          /\ open_calls = 0
          /\ read_calls = 0
          /\ pc \in {"catch", "finally", "done"}
          /\ pc = "done" => status = 500

\* a zero-length corpus: the stat was made, no open, and the answer is 500
C6_Witness ==
    /\ pc = "done"
    /\ Len(corpus_file) = 0
    /\ corpus_size = Num(0)
    /\ stat_calls = 1
    /\ open_calls = 0
    /\ status = 500

(* ------------------------------------------------------------------------ *)
(* C7                                                                        *)
(* ------------------------------------------------------------------------ *)

\* C7: every failure is answered with status 500 and the one fixed message,
\* whatever the error was, the error itself goes to the log only, and no
\* fragment gathered before the failure is returned.
C7_Generic ==
    /\ status = 500 => body = FailureBody
    /\ (error # NoError /\ pc \in {"finally", "done"}) =>
          /\ status = 500
          /\ body = FailureBody
          /\ console_error # <<>>
          /\ console_error[1] = error
    /\ status = 200 => error = NoError

\* a read failed after a fragment had been gathered: the answer is the fixed
\* one, without the fragment
C7_Witness ==
    /\ pc = "done"
    /\ status = 500
    /\ error.message = "readSync failed"
    /\ built_contents # <<>>
    /\ body = FailureBody

(* ------------------------------------------------------------------------ *)
(* C8                                                                        *)
(* ------------------------------------------------------------------------ *)

\* the request asks for more text than the corpus holds
AsksMoreThanCorpus ==
    /\ IsInt(AskedSize(r_total_size, DefaultTotalSize))
    /\ AskedSize(r_total_size, DefaultTotalSize).v > Len(corpus_file)

\* C8 as claimed, for the requests whose block size is a number: whenever the
\* requested total size is larger than the corpus length, the effective total
\* size is the corpus length and the texts of the 200 page add up to exactly
\* that many characters.
C8_ExactTotal ==
    (status = 200 /\ AsksMoreThanCorpus /\ IsInt(block_size)) =>
        /\ total_size = Num(Len(corpus_file))
        /\ TextLength(body.fragments) = Len(corpus_file)

\* C8 as amended: whenever the requested total size is larger than the corpus
\* length, the effective total size is the corpus length, and the texts of
\* the 200 page add up to exactly that many characters unless the loop ended
\* on its limiter test (loop_limiter > 0 false) first, and to fewer then.
C8_ExactUnlessLimiter ==
    (status = 200 /\ AsksMoreThanCorpus) =>
        /\ total_size = Num(Len(corpus_file))
        /\ \/ TextLength(body.fragments) = Len(corpus_file)
           \/ /\ ~JsGt(loop_limiter, Num(0))
              /\ TextLength(body.fragments) < Len(corpus_file)

\* the default total size against a corpus of MaxCorpusLen bytes, once with
\* the page filled to the corpus length
C8_Witness ==
    /\ pc = "done"
    /\ status = 200
    /\ ~r_total_size.present
    /\ Len(corpus_file) = MaxCorpusLen
    /\ total_size = Num(MaxCorpusLen)
    /\ TextLength(body.fragments) = MaxCorpusLen

(* ------------------------------------------------------------------------ *)
(* C9                                                                        *)
(* ------------------------------------------------------------------------ *)

\* the prefix the claim gives the links of a request
LinkPrefix ==
    IF r_base_path.text[Len(r_base_path.text)] = "/"
    THEN r_base_path.text
    ELSE r_base_path.text \o <<"/">>

\* C9: every fragment's link target is P + id + ".html", P being base_path
\* with one '/' appended unless it ends with one, and id is not empty, is not
\* 'undefined' and holds no '/'.
C9_LinkTargets ==
    \A i \in 1..Len(built_contents) :
        LET href == built_contents[i].href
            id == SubSeq(href, Len(LinkPrefix) + 1, Len(href) - Len(DotHtml))
        IN  /\ href = LinkPrefix \o id \o DotHtml
            /\ id # <<>>
            /\ id # <<"u", "n", "d", "e", "f", "i", "n", "e", "d">>
            /\ "/" \notin Chars(id)

(* ------------------------------------------------------------------------ *)
(* C10                                                                       *)
(* ------------------------------------------------------------------------ *)

\* C10: normalization is idempotent: applying the two rules to their own
\* result changes nothing, and the result holds no line feed and no two
\* adjacent spaces.
C10_Idempotent ==
    /\ [][pc = "normalized" => line_read' = line_read]_vars
    /\ [](pc \in {"normalized", "renormalized"} =>
            /\ LF \notin Chars(line_read)
            /\ \A i \in 1..(Len(line_read) - 1) :
                  ~(line_read[i] = SP /\ line_read[i + 1] = SP))

\* a string with a CR LF pair next to spaces was normalized twice
C10_Witness ==
    /\ pc = "renormalized"
    /\ \E i \in 1..(Len(read_buffer) - 2) :
          read_buffer[i] = SP /\ read_buffer[i + 1] = CR /\ read_buffer[i + 2] = LF
    /\ Len(line_read) < Len(read_buffer)

(* ------------------------------------------------------------------------ *)
(* C11                                                                       *)
(* ------------------------------------------------------------------------ *)

\* a pass of the loop has run to its end and nothing was thrown since
PassCompleted == error = NoError /\ built_contents # <<>>

\* C11: after every completed pass, whatever offset o it drew in
\* [0, corpus length), the buffer handed to decoding holds exactly
\* block_size bytes and its byte i is corpus byte (o + i) mod corpus length,
\* so nothing an earlier pass left in the buffer is in it.
C11_WrappedBlock ==
    PassCompleted =>
        /\ IsInt(read_offset)
        /\ read_offset.v \in 0..(Len(corpus_file) - 1)
        /\ Len(read_buffer) = block_size.v
        /\ \A i \in 0..(block_size.v - 1) :
              read_buffer[i + 1] =
                  corpus_file[((read_offset.v + i) % Len(corpus_file)) + 1]

\* a second pass whose offset is so near the end of the file that the block
\* wraps around, over a buffer that held another block before
C11_Witness ==
    /\ PassCompleted
    /\ Len(built_contents) >= 2
    /\ read_offset.v > 0
    /\ read_offset.v + block_size.v > Len(corpus_file)
    /\ Cardinality(Chars(corpus_file)) >= 2
    /\ built_contents[1].text # Normalize(ToStringUtf8(read_buffer))

(* ------------------------------------------------------------------------ *)
(* C12                                                                       *)
(* ------------------------------------------------------------------------ *)

\* the length of the normalized text of the i-th sample: only the last
\* fragment can have been cut, and its sample is still in the buffer
SampleLength(i) ==
    IF i < Len(built_contents)
    THEN Len(built_contents[i].text)
    ELSE Len(Normalize(ToStringUtf8(read_buffer)))

\* every sample taken so far kept at least half of the block size
HalfKept ==
    \A i \in 1..Len(built_contents) : 2 * SampleLength(i) >= block_size.v

\* C12: if every sampled block normalizes to a text of at least half the
\* effective block size, the counter has reached the effective total size
\* whenever the limiter test fails, and the 200 page holds exactly
\* effective-total-size characters of fragment text.
C12_Sufficient ==
    (LoopEntered /\ error = NoError /\ HalfKept) =>
        /\ ~JsGt(loop_limiter, Num(0)) => Num(concatenated_text_length) = total_size
        /\ status = 200 => Num(TextLength(body.fragments)) = total_size

\* the same for the requests whose two sizes are numbers: there the budget
\* is ceil(total_size / block_size) * 2 and it is sufficient
C12_SufficientForNumbers ==
    (LoopEntered /\ error = NoError /\ IsInt(block_size) /\ IsInt(total_size) /\ HalfKept) =>
        /\ ~JsGt(loop_limiter, Num(0)) => Num(concatenated_text_length) = total_size
        /\ status = 200 => Num(TextLength(body.fragments)) = total_size

\* a full page whose samples each lost characters, but none more than half
C12_NumbersWitness ==
    /\ pc = "done"
    /\ status = 200
    /\ HalfKept
    /\ Len(body.fragments) >= 2
    /\ \A i \in 1..Len(built_contents) : SampleLength(i) < block_size.v
    /\ TextLength(body.fragments) = total_size.v

=============================================================================
